---------------------------- MODULE Spec2Model ----------------------------
(***************************************************************************)
(* A model of Resume4.py, the resume screening script.  Texts are          *)
(* sequences of one-character strings; the regular expressions of the      *)
(* script are computed character by character.  One run of the script is   *)
(* a sequence of steps of a session; the Excel log is the only state the   *)
(* sessions share besides the temporary upload files.                      *)
(***************************************************************************)
EXTENDS Integers, Sequences, FiniteSets, TLC

(***************************************************************************)
(* Bounds of the model.                                                    *)
(***************************************************************************)
MaxRuns == 2
MaxTokens == 4
MaxSkills == 2
MaxEmailLen == 7

(***************************************************************************)
(* Characters.                                                             *)
(***************************************************************************)
LowerSeq == <<"a","b","c","d","e","f","g","h","i","j","k","l","m",
              "n","o","p","q","r","s","t","u","v","w","x","y","z">>
UpperSeq == <<"A","B","C","D","E","F","G","H","I","J","K","L","M",
              "N","O","P","Q","R","S","T","U","V","W","X","Y","Z">>
Lower == {LowerSeq[i] : i \in 1..26}
Upper == {UpperSeq[i] : i \in 1..26}
Letters == Lower \cup Upper
Digits == {"0","1","2","3","4","5","6","7","8","9"}
\* \s of the re module (ASCII part)
Spaces == {" ", "\t", "\n", "\r", "\f"}
\* \w of the re module (ASCII part)
WordChars == Letters \cup Digits \cup {"_"}

\* str.lower() on one character
LowerChar(c) ==
    IF c \in Upper THEN LowerSeq[CHOOSE i \in 1..26 : UpperSeq[i] = c] ELSE c

\* str.lower()
LowerStr(t) == [i \in 1..Len(t) |-> LowerChar(t[i])]

\* two characters are equal under re.IGNORECASE
SameFold(a, b) == LowerChar(a) = LowerChar(b)

\* str.strip(): the text without leading and trailing whitespace
Strip(t) ==
    LET keep == {i \in 1..Len(t) : t[i] \notin Spaces}
    IN  IF keep = {} THEN <<>>
        ELSE LET lo == CHOOSE i \in keep : \A j \in keep : i <= j
                 hi == CHOOSE i \in keep : \A j \in keep : j <= i
             IN  SubSeq(t, lo, hi)

\* str.endswith(suffix)
EndsWith(t, suffix) ==
    /\ Len(suffix) <= Len(t)
    /\ SubSeq(t, Len(t) - Len(suffix) + 1, Len(t)) = suffix

RECURSIVE Flatten(_)
\* "".join(parts)
Flatten(parts) ==
    IF parts = <<>> THEN <<>> ELSE Head(parts) \o Flatten(Tail(parts))

RECURSIVE Join(_, _)
\* sep.join(parts)
Join(sep, parts) ==
    IF parts = <<>> THEN <<>>
    ELSE IF Len(parts) = 1 THEN parts[1]
    ELSE parts[1] \o sep \o Join(sep, Tail(parts))

(***************************************************************************)
(* The pattern \b<escaped skill>\b with re.IGNORECASE.                     *)
(***************************************************************************)
\* \b between t[i] and t[i+1] (i = 0: start of the text, i = Len(t): its end)
Boundary(t, i) ==
    LET before == i >= 1 /\ t[i] \in WordChars
        after  == i < Len(t) /\ t[i + 1] \in WordChars
    IN  before # after

\* the literal characters of the skill at positions p .. p+Len(skill)-1
LiteralAt(t, skill, p) ==
    /\ p >= 1
    /\ p + Len(skill) - 1 <= Len(t)
    /\ \A k \in 1..Len(skill) : SameFold(t[p + k - 1], skill[k])

\* the pattern matches at position p
MatchAt(t, skill, p) ==
    /\ LiteralAt(t, skill, p)
    /\ Boundary(t, p - 1)
    /\ Boundary(t, p + Len(skill) - 1)

\* re.search(pattern, t, re.IGNORECASE) is not None
Search(t, skill) == \E p \in 1..Len(t) : MatchAt(t, skill, p)

(***************************************************************************)
(* The functions of the script.                                            *)
(***************************************************************************)
\* score_resume's count of the skills the pattern finds in the text
MatchCount(resume_text, skills) ==
    Cardinality({i \in 1..Len(skills) : Search(resume_text, skills[i])})

\* score_resume: matches / len(skills) * 100, or 0 for no skills, as the
\* fraction num/den
score_resume(resume_text, skills) ==
    IF skills # <<>>
    THEN [num |-> MatchCount(resume_text, skills) * 100, den |-> Len(skills)]
    ELSE [num |-> 0, den |-> 1]

\* round(score, 2) in hundredths: the nearest integer to 100*num/den, a tie
\* going to the even one
Round2(score) ==
    LET n == score.num * 100
        q == n \div score.den
        r == n % score.den
    IN  IF 2 * r < score.den THEN q
        ELSE IF 2 * r > score.den THEN q + 1
        ELSE IF q % 2 = 0 THEN q ELSE q + 1

RECURSIVE Filter(_, _)
\* [s for s in skills if re.search(...)]
Filter(resume_text, skills) ==
    IF skills = <<>> THEN <<>>
    ELSE IF Search(resume_text, Head(skills))
         THEN <<Head(skills)>> \o Filter(resume_text, Tail(skills))
         ELSE Filter(resume_text, Tail(skills))

RECURSIVE FoundTexts(_, _)
\* what the comprehension would collect if it kept the text that matched,
\* in the resume's own case, in place of the skill
FoundTexts(resume_text, skills) ==
    IF skills = <<>> THEN <<>>
    ELSE IF Search(resume_text, Head(skills))
         THEN LET p == CHOOSE p \in 1..Len(resume_text) :
                           MatchAt(resume_text, Head(skills), p)
              IN  <<SubSeq(resume_text, p, p + Len(Head(skills)) - 1)>>
                      \o FoundTexts(resume_text, Tail(skills))
         ELSE FoundTexts(resume_text, Tail(skills))

\* the comprehension of line 96
MatchedSkills(resume_text, skills) == Filter(resume_text, skills)

\* the replacement template of highlight_text around \1
MarkOpen == <<
    "<","m","a","r","k"," ","s","t","y","l","e","=","'","b","a","c",
    "k","g","r","o","u","n","d",":","#","f","e","e","2","e","2",";",
    " ","p","a","d","d","i","n","g",":","0",".","1","r","e","m"," ",
    "0",".","2","r","e","m",";"," ","b","o","r","d","e","r","-","r",
    "a","d","i","u","s",":","0",".","2","r","e","m",";","'",">" >>
MarkClose == << "<","/","m","a","r","k",">" >>

RECURSIVE SubFrom(_, _, _)
\* re.sub from position pos on: the leftmost match is replaced and the scan
\* goes on after it; the boundaries are those of the whole text
SubFrom(t, skill, pos) ==
    LET starts == {p \in pos..Len(t) : MatchAt(t, skill, p)}
    IN  IF starts = {} THEN SubSeq(t, pos, Len(t))
        ELSE LET p == CHOOSE p \in starts : \A m \in starts : p <= m
             IN  SubSeq(t, pos, p - 1)
                     \o MarkOpen \o SubSeq(t, p, p + Len(skill) - 1) \o MarkClose
                     \o SubFrom(t, skill, p + Len(skill))

\* re.sub(pattern, template, t, flags=re.IGNORECASE)
Sub(t, skill) == SubFrom(t, skill, 1)

RECURSIVE SortedByLen(_)
\* sorted(skills, key=len, reverse=True): stable, the longest first
SortedByLen(skills) ==
    IF skills = <<>> THEN <<>>
    ELSE LET i == CHOOSE i \in 1..Len(skills) :
                     /\ \A j \in 1..Len(skills) : Len(skills[j]) <= Len(skills[i])
                     /\ \A j \in 1..(i - 1) : Len(skills[j]) < Len(skills[i])
             rest == [k \in 1..(Len(skills) - 1) |->
                          IF k < i THEN skills[k] ELSE skills[k + 1]]
         IN  <<skills[i]>> \o SortedByLen(rest)

RECURSIVE SubAll(_, _)
\* the loop of highlight_text over the sorted terms
SubAll(t, terms) ==
    IF terms = <<>> THEN t ELSE SubAll(Sub(t, Head(terms)), Tail(terms))

\* highlight_text
highlight_text(text, skills) == SubAll(text, SortedByLen(skills))

NotFound == << "N","o","t"," ","f","o","u","n","d" >>

\* [a-zA-Z0-9._%+-]
LocalChars == Letters \cup Digits \cup {".", "_", "%", "+", "-"}
\* [a-zA-Z0-9.-]
DomainChars == Letters \cup Digits \cup {".", "-"}

\* the length of the longest run of characters of cls that starts at p
RunLen(t, cls, p) ==
    LET ends == {n \in 0..(Len(t) - p + 1) :
                     \A k \in p..(p + n - 1) : t[k] \in cls}
    IN  CHOOSE n \in ends : \A m \in ends : m <= n

\* the end of the match if the pattern ended in [a-zA-Z]+, a top-level
\* segment of one letter being enough
EmailEndShortTld(t, p) ==
    LET a  == RunLen(t, LocalChars, p)
        q  == p + a + 1
        b  == RunLen(t, DomainChars, q)
        js == {j \in 1..b : /\ q + j <= Len(t)
                            /\ t[q + j] = "."
                            /\ RunLen(t, Letters, q + j + 1) >= 1}
    IN  IF a = 0 \/ p + a > Len(t) THEN 0
        ELSE IF t[p + a] # "@" \/ js = {} THEN 0
        ELSE LET j == CHOOSE j \in js : \A m \in js : m <= j
             IN  q + j + RunLen(t, Letters, q + j + 1)

\* the end of the match of the email pattern that starts at p, 0 for none:
\* the local part is greedy up to the "@", the domain is greedy and gives
\* characters back until a "." followed by two letters or more is found
EmailEnd(t, p) ==
    LET a  == RunLen(t, LocalChars, p)
        q  == p + a + 1
        b  == RunLen(t, DomainChars, q)
        js == {j \in 1..b : /\ q + j <= Len(t)
                            /\ t[q + j] = "."
                            /\ RunLen(t, Letters, q + j + 1) >= 2}
    IN  IF a = 0 \/ p + a > Len(t) THEN 0
        ELSE IF t[p + a] # "@" \/ js = {} THEN 0
        ELSE LET j == CHOOSE j \in js : \A m \in js : m <= j
             IN  q + j + RunLen(t, Letters, q + j + 1)

\* extract_email: the first match of re.findall, or the sentinel
extract_email(text) ==
    LET starts == {p \in 1..Len(text) : EmailEnd(text, p) # 0}
    IN  IF starts = {} THEN NotFound
        ELSE LET p == CHOOSE p \in starts : \A m \in starts : p <= m
             IN  SubSeq(text, p, EmailEnd(text, p))

\* [\d\s-]
PhoneChars == Digits \cup Spaces \cup {"-"}

\* the end of the match of the phone pattern that starts at p, 0 for none
PhoneEnd(t, p) ==
    LET q  == IF p <= Len(t) /\ t[p] = "+" THEN p + 1 ELSE p
        r  == RunLen(t, PhoneChars, q + 1)
        ks == {k \in 7..(r - 1) : t[q + k + 1] \in Digits}
    IN  IF q > Len(t) THEN 0
        ELSE IF t[q] \notin Digits \/ ks = {} THEN 0
        ELSE q + 1 + (CHOOSE k \in ks : \A m \in ks : m <= k)

\* extract_phone: the first match of re.findall, or the sentinel
extract_phone(text) ==
    LET starts == {p \in 1..Len(text) : PhoneEnd(text, p) # 0}
    IN  IF starts = {} THEN NotFound
        ELSE LET p == CHOOSE p \in starts : \A m \in starts : p <= m
             IN  SubSeq(text, p, PhoneEnd(text, p))

(***************************************************************************)
(* Cells, tables and the Excel file.                                       *)
(***************************************************************************)
\* a cell holding a string
Str(s) == [kind |-> "str", s |-> s, n |-> 0]
\* a cell holding a number
Num(n) == [kind |-> "num", s |-> <<>>, n |-> n]
\* the missing value of a DataFrame
NaN == [kind |-> "nan", s |-> <<>>, n |-> 0]
\* an empty cell of the worksheet
Empty == [kind |-> "empty", s |-> <<>>, n |-> 0]

\* the keys of new_row, in the order of the dict literal
DeclaredCols == <<"Timestamp", "Filename", "Email", "Contact_Number",
                  "Match_Score(%)", "Matched_Skills", "Total_Skills",
                  "Matched_Skills_Count">>

\* the elements of a sequence
Range(f) == {f[i] : i \in DOMAIN f}

\* a table (a DataFrame, or the worksheet of the file) with no column
NoTable == [cols |-> <<>>, rows |-> <<>>]

\* no file at EXCEL_DB
Absent == [exists |-> FALSE, cols |-> <<>>, rows |-> <<>>]

\* to_excel writes a missing value and an empty string as an empty cell
ToCell(v) == IF v.kind = "nan" \/ (v.kind = "str" /\ v.s = <<>>) THEN Empty ELSE v

\* read_excel reads an empty cell as a missing value
FromCell(c) == IF c.kind = "empty" THEN NaN ELSE c

\* df.to_excel(EXCEL_DB, index=False): the whole file is replaced by the
\* columns and rows of df
to_excel(df) ==
    [exists |-> TRUE,
     cols   |-> df.cols,
     rows   |-> [i \in 1..Len(df.rows) |->
                    [c \in Range(df.cols) |-> ToCell(df.rows[i][c])]]]

\* pd.read_excel(EXCEL_DB)
read_excel(file) ==
    [cols |-> file.cols,
     rows |-> [i \in 1..Len(file.rows) |->
                  [c \in Range(file.cols) |-> FromCell(file.rows[i][c])]]]

\* df[col] = "" when col is not in df.columns: a new last column holding
\* the empty string in every row
AddColumn(df, col) ==
    IF col \in Range(df.cols) THEN df
    ELSE [cols |-> Append(df.cols, col),
          rows |-> [i \in 1..Len(df.rows) |->
                       [c \in Range(df.cols) \cup {col} |->
                           IF c = col THEN Str(<<>>) ELSE df.rows[i][c]]]]

\* the frame as read, were lines 144-147 left out
BackfillNothing(df) == df

\* lines 144-147
Backfill(df) == AddColumn(AddColumn(df, "Email"), "Contact_Number")

\* pd.DataFrame([row]) of a dict whose keys are the declared columns
FrameOf(row) == [cols |-> DeclaredCols, rows |-> <<row>>]

\* pd.concat([a, b], ignore_index=True): the columns of a, then those of b
\* that a lacks; the rows of a, then those of b; a missing value where a
\* row has no such column
Concat(a, b) ==
    LET extra == SelectSeq(b.cols, LAMBDA c : c \notin Range(a.cols))
        cols  == a.cols \o extra
        widen(r, own) == [c \in Range(cols) |-> IF c \in own THEN r[c] ELSE NaN]
    IN  [cols |-> cols,
         rows |-> [i \in 1..Len(a.rows) |-> widen(a.rows[i], Range(a.cols))]
                    \o [i \in 1..Len(b.rows) |-> widen(b.rows[i], Range(b.cols))]]

(***************************************************************************)
(* The inputs of a run.                                                    *)
(***************************************************************************)
\* what the sidebar's file_uploader holds: nothing, or a file with a name
\* and contents (the text of a PDF, the paragraphs of a DOCX, or neither)
NoUpload == [kind |-> "none", name |-> <<>>, text |-> <<>>, paras |-> <<>>]
PdfFile(name, text) == [kind |-> "pdf", name |-> name, text |-> text, paras |-> <<>>]
DocxFile(name, paras) == [kind |-> "docx", name |-> name, text |-> <<>>, paras |-> paras]
JunkFile(name) == [kind |-> "junk", name |-> name, text |-> <<>>, paras |-> <<>>]

NamePdf == <<"r", ".", "p", "d", "f">>
NameDocx == <<"r", ".", "d", "o", "c", "x">>

\* the files a user uploads in the model
Uploads ==
    { PdfFile(NamePdf, <<"A", "B", " ", "c", "d">>),
      PdfFile(NamePdf, <<"a", "b", " ", "c">>),
      DocxFile(NameDocx, << <<"a", "b", " ", "c">>,
                            <<"a", "@", "b", ".", "i", "o">> >>),
      JunkFile(NamePdf) }

\* the job descriptions a user types in the model
JobDescriptions == { <<>>, <<" ">>, <<"a", "b", " ", "c">> }

\* the names under which uploads are saved
TempNames == {u.name : u \in Uploads}

\* no file of that name in the working directory
NoFile == [kind |-> "none", text |-> <<>>, paras |-> <<>>]

(***************************************************************************)
(* The linguistic annotation of extract_skills.  The tagger is outside the *)
(* script: what it returns for a text is one of SkillOutcomes(text).  A    *)
(* noun chunk is a span of tokens and a noun is one token; a token is      *)
(* taken to be a longest run of characters that are not whitespace.        *)
(***************************************************************************)
\* the spans of whole tokens of a text, as (first, last) positions
TokenSpans(t) ==
    {<<i, j>> \in (1..Len(t)) \X (1..Len(t)) :
        /\ i <= j
        /\ t[i] \notin Spaces /\ t[j] \notin Spaces
        /\ (i = 1 \/ t[i - 1] \in Spaces)
        /\ (j = Len(t) \/ t[j + 1] \in Spaces)}

\* chunk.text.lower() and token.text.lower() of the spans longer than one
\* character
Candidates(t) ==
    {LowerStr(SubSeq(t, sp[1], sp[2])) : sp \in {x \in TokenSpans(t) : x[2] > x[1]}}

\* the sequences without repetition over a set
RECURSIVE Orderings(_)
Orderings(S) ==
    IF S = {} THEN {<<>>}
    ELSE UNION {{<<x>> \o o : o \in Orderings(S \ {x})} : x \in S}

\* list(set(candidates)): the candidates the tagger found, each once, in
\* the order the set happens to yield
SkillOutcomes(t) == UNION {Orderings(C) : C \in SUBSET Candidates(t)}

(***************************************************************************)
(* State.                                                                  *)
(***************************************************************************)
Sessions == {"s1", "s2"}

VARIABLES
    log,                \* the file screening_results.xlsx
    temp,               \* the files temp_<name> of the working directory
    clock,              \* datetime.now(), in seconds
    runs,               \* the script runs started so far
    log0,               \* history: the file when the app was started
    saved,              \* history: the rows written by completed saves
    pc,                 \* each session's place in the script
    outcome,            \* how each session's last run ended
    uploaded_file,      \* each session's upload
    job_description,    \* each session's job description
    resume_text, skills, score, matched_skills, email, phone,
    highlighted_resume, new_row, df,
    steps,              \* history: the stages the current run has completed
    log_before          \* history: the file when the current run started

shared == <<log, temp, clock, runs, log0, saved>>
inputs == <<uploaded_file, job_description>>
locals == <<resume_text, skills, score, matched_skills, email, phone,
            highlighted_resume, new_row, df>>
vars == <<shared, pc, outcome, inputs, locals, steps, log_before>>

\* the score before line 95 has run
NoScore == [num |-> 0, den |-> 1]

\* new_row before line 131 has run
NoRow == [c \in Range(DeclaredCols) |-> NaN]

\* a file written by an earlier version of the script, which logged no
\* contact fields
OldCols == <<"Timestamp", "Filename", "Match_Score(%)", "Matched_Skills",
             "Total_Skills", "Matched_Skills_Count">>
OldRow ==
    [c \in Range(OldCols) |->
        CASE c = "Timestamp" -> Num(0)
          [] c = "Filename" -> Str(NameDocx)
          [] c = "Match_Score(%)" -> Num(5000)
          [] c = "Matched_Skills" -> Str(<<"a", "b">>)
          [] c = "Total_Skills" -> Num(2)
          [] OTHER -> Num(1)]
OldLog == [exists |-> TRUE, cols |-> OldCols, rows |-> <<OldRow>>]
\* a file of a version that logged the email but not the phone number
OlderCols == <<"Timestamp", "Filename", "Email", "Match_Score(%)",
               "Matched_Skills", "Total_Skills", "Matched_Skills_Count">>
OlderLog ==
    [exists |-> TRUE, cols |-> OlderCols,
     rows |-> << [c \in Range(OlderCols) |->
                     IF c = "Email" THEN Str(<<"a", "@", "b", ".", "i", "o">>)
                     ELSE OldRow[c]] >>]

(***************************************************************************)
(* Construction: the app is started in a working directory that holds no   *)
(* log yet, or the log of an earlier version.                              *)
(***************************************************************************)
InitLocals ==
    /\ resume_text = [s \in Sessions |-> <<>>]
    /\ skills = [s \in Sessions |-> <<>>]
    /\ score = [s \in Sessions |-> NoScore]
    /\ matched_skills = [s \in Sessions |-> <<>>]
    /\ email = [s \in Sessions |-> <<>>]
    /\ phone = [s \in Sessions |-> <<>>]
    /\ highlighted_resume = [s \in Sessions |-> <<>>]
    /\ new_row = [s \in Sessions |-> NoRow]
    /\ df = [s \in Sessions |-> NoTable]
    /\ steps = [s \in Sessions |-> <<>>]

Init ==
    /\ log \in {Absent, OldLog, OlderLog}
    /\ log0 = log
    /\ temp = [n \in TempNames |-> NoFile]
    /\ clock = 1
    /\ runs = 0
    /\ saved = <<>>
    /\ pc = [s \in Sessions |-> "idle"]
    /\ outcome = [s \in Sessions |-> "none"]
    /\ uploaded_file = [s \in Sessions |-> NoUpload]
    /\ job_description = [s \in Sessions |-> <<>>]
    /\ InitLocals
    /\ log_before = [s \in Sessions |-> log]

(***************************************************************************)
(* The steps of one run of the script by session s.                        *)
(***************************************************************************)
\* the session moves on to the statement at `to'
Goto(s, to) == pc' = [pc EXCEPT ![s] = to]

\* the run ends: the script is past its last line, or an exception that
\* nothing catches has ended it; the globals of the run are gone
End(s, how) ==
    /\ pc' = [pc EXCEPT ![s] = "idle"]
    /\ outcome' = [outcome EXCEPT ![s] = how]
    /\ resume_text' = [resume_text EXCEPT ![s] = <<>>]
    /\ skills' = [skills EXCEPT ![s] = <<>>]
    /\ score' = [score EXCEPT ![s] = NoScore]
    /\ matched_skills' = [matched_skills EXCEPT ![s] = <<>>]
    /\ email' = [email EXCEPT ![s] = <<>>]
    /\ phone' = [phone EXCEPT ![s] = <<>>]
    /\ highlighted_resume' = [highlighted_resume EXCEPT ![s] = <<>>]
    /\ new_row' = [new_row EXCEPT ![s] = NoRow]
    /\ df' = [df EXCEPT ![s] = NoTable]

\* a widget changes and Streamlit runs the script from its first line with
\* the widgets' values (lines 34-39), some time after the run before
RerunWith(s, files, descriptions) ==
    /\ pc[s] = "idle"
    /\ runs < MaxRuns
    /\ \E u \in files, jd \in descriptions :
          /\ uploaded_file' = [uploaded_file EXCEPT ![s] = u]
          /\ job_description' = [job_description EXCEPT ![s] = jd]
    /\ clock' = clock + 1
    /\ runs' = runs + 1
    /\ UNCHANGED locals
    /\ steps' = [steps EXCEPT ![s] = <<>>]
    /\ log_before' = [log_before EXCEPT ![s] = log]
    /\ outcome' = [outcome EXCEPT ![s] = "running"]
    /\ Goto(s, "guard")
    /\ UNCHANGED <<log, temp, log0, saved>>

\* a rerun with any upload, or none, and any job description
Rerun(s) == RerunWith(s, Uploads \cup {NoUpload}, JobDescriptions)

\* the condition without .strip(): a job description of spaces passes
GuardNoStrip(s) ==
    /\ uploaded_file[s].kind # "none"
    /\ job_description[s] # <<>>

\* line 88: if uploaded_file and job_description.strip()
GuardHolds(s) ==
    /\ uploaded_file[s].kind # "none"
    /\ Strip(job_description[s]) # <<>>

Guard(s) ==
    /\ pc[s] = "guard"
    /\ IF GuardHolds(s) THEN Goto(s, "save_temp") ELSE Goto(s, "past")
    /\ UNCHANGED <<shared, outcome, inputs, locals, steps, log_before>>

\* lines 89-91: the upload is written to temp_<name>
SaveTemp(s) ==
    /\ pc[s] = "save_temp"
    /\ temp' = [temp EXCEPT ![uploaded_file[s].name] =
                   [kind  |-> uploaded_file[s].kind,
                    text  |-> uploaded_file[s].text,
                    paras |-> uploaded_file[s].paras]]
    /\ Goto(s, "read_doc")
    /\ UNCHANGED <<log, clock, runs, log0, saved, outcome, inputs, locals,
                   steps, log_before>>

\* line 92: the reader the name's ending selects
UsesPdfReader(name) == EndsWith(name, <<".", "p", "d", "f">>)

\* read_pdf and read_docx raise on a file that is not of their format
Readable(name, file) ==
    IF UsesPdfReader(name) THEN file.kind = "pdf" ELSE file.kind = "docx"

\* read_pdf: the text pdfminer extracts; read_docx: the paragraphs joined
\* by newlines
ReadText(name, file) ==
    IF UsesPdfReader(name) THEN file.text ELSE Join(<<"\n">>, file.paras)

ReadDoc(s) ==
    /\ pc[s] = "read_doc"
    /\ LET name == uploaded_file[s].name
           file == temp[name]
       IN  IF Readable(name, file)
           THEN /\ resume_text' = [resume_text EXCEPT ![s] = ReadText(name, file)]
                /\ steps' = [steps EXCEPT ![s] = Append(@, "read")]
                /\ Goto(s, "extract")
                /\ UNCHANGED outcome
                /\ UNCHANGED <<skills, score, matched_skills, email, phone,
                               highlighted_resume, new_row, df>>
           ELSE /\ End(s, "ReadError")
                /\ UNCHANGED steps
    /\ UNCHANGED <<shared, inputs, log_before>>

\* line 94: skills = extract_skills(job_description)
ExtractSkills(s) ==
    /\ pc[s] = "extract"
    /\ \E found \in SkillOutcomes(job_description[s]) :
          skills' = [skills EXCEPT ![s] = found]
    /\ steps' = [steps EXCEPT ![s] = Append(@, "extract")]
    /\ Goto(s, "score")
    /\ UNCHANGED <<shared, outcome, inputs, resume_text, score, matched_skills,
                   email, phone, highlighted_resume, new_row, df, log_before>>

\* line 95: score = score_resume(resume_text, skills)
ScoreStep(s) ==
    /\ pc[s] = "score"
    /\ score' = [score EXCEPT ![s] = score_resume(resume_text[s], skills[s])]
    /\ steps' = [steps EXCEPT ![s] = Append(@, "score")]
    /\ Goto(s, "match")
    /\ UNCHANGED <<shared, outcome, inputs, resume_text, skills, matched_skills,
                   email, phone, highlighted_resume, new_row, df, log_before>>

\* line 96: matched_skills
MatchStep(s) ==
    /\ pc[s] = "match"
    /\ matched_skills' =
           [matched_skills EXCEPT ![s] = MatchedSkills(resume_text[s], skills[s])]
    /\ Goto(s, "email")
    /\ UNCHANGED <<shared, outcome, inputs, resume_text, skills, score,
                   email, phone, highlighted_resume, new_row, df, steps,
                   log_before>>

\* line 97: email = extract_email(resume_text)
EmailStep(s) ==
    /\ pc[s] = "email"
    /\ email' = [email EXCEPT ![s] = extract_email(resume_text[s])]
    /\ Goto(s, "phone")
    /\ UNCHANGED <<shared, outcome, inputs, resume_text, skills, score,
                   matched_skills, phone, highlighted_resume, new_row, df,
                   steps, log_before>>

\* line 98: phone = extract_phone(resume_text)
PhoneStep(s) ==
    /\ pc[s] = "phone"
    /\ phone' = [phone EXCEPT ![s] = extract_phone(resume_text[s])]
    /\ Goto(s, "highlight")
    /\ UNCHANGED <<shared, outcome, inputs, resume_text, skills, score,
                   matched_skills, email, highlighted_resume, new_row, df,
                   steps, log_before>>

\* line 114: highlighted_resume = highlight_text(resume_text, matched_skills)
HighlightStep(s) ==
    /\ pc[s] = "highlight"
    /\ highlighted_resume' =
           [highlighted_resume EXCEPT
               ![s] = highlight_text(resume_text[s], matched_skills[s])]
    /\ steps' = [steps EXCEPT ![s] = Append(@, "highlight")]
    /\ Goto(s, "new_row")
    /\ UNCHANGED <<shared, outcome, inputs, resume_text, skills, score,
                   matched_skills, email, phone, new_row, df, log_before>>

\* lines 131-140: the record of this run
RowOf(now, name, em, ph, sc, matched, all) ==
    [c \in Range(DeclaredCols) |->
        CASE c = "Timestamp" -> Num(now)
          [] c = "Filename" -> Str(name)
          [] c = "Email" -> Str(em)
          [] c = "Contact_Number" -> Str(ph)
          [] c = "Match_Score(%)" -> Num(Round2(sc))
          [] c = "Matched_Skills" -> Str(Join(<<",", " ">>, matched))
          [] c = "Total_Skills" -> Num(Len(all))
          [] OTHER -> Num(Len(matched))]

NewRow(s) ==
    /\ pc[s] = "new_row"
    /\ new_row' = [new_row EXCEPT ![s] =
                      RowOf(clock, uploaded_file[s].name, email[s], phone[s],
                            score[s], matched_skills[s], skills[s])]
    /\ Goto(s, "exists")
    /\ UNCHANGED <<shared, outcome, inputs, resume_text, skills, score,
                   matched_skills, email, phone, highlighted_resume, df, steps,
                   log_before>>

\* line 142: if os.path.exists(EXCEL_DB)
Exists(s) ==
    /\ pc[s] = "exists"
    /\ IF log.exists THEN Goto(s, "read_log") ELSE Goto(s, "fresh")
    /\ UNCHANGED <<shared, outcome, inputs, locals, steps, log_before>>

\* line 143 with the exception caught and the run going on with a frame
\* of the new row alone
ReadLogLenient(s) ==
    /\ pc[s] = "read_log"
    /\ \/ /\ df' = [df EXCEPT ![s] = read_excel(log)]
          /\ Goto(s, "backfill")
       \/ /\ df' = [df EXCEPT ![s] = FrameOf(new_row[s])]
          /\ Goto(s, "write")
    /\ UNCHANGED <<shared, outcome, inputs, resume_text, skills, score,
                   matched_skills, email, phone, highlighted_resume, new_row,
                   steps, log_before>>

\* line 143: df = pd.read_excel(EXCEL_DB), which raises when the file
\* cannot be read
ReadLog(s) ==
    /\ pc[s] = "read_log"
    /\ \/ /\ df' = [df EXCEPT ![s] = read_excel(log)]
          /\ Goto(s, "backfill")
          /\ UNCHANGED <<outcome, resume_text, skills, score, matched_skills,
                         email, phone, highlighted_resume, new_row>>
       \/ End(s, "PersistenceError")
    /\ UNCHANGED <<shared, inputs, steps, log_before>>

\* lines 144-147
BackfillStep(s) ==
    /\ pc[s] = "backfill"
    /\ df' = [df EXCEPT ![s] = Backfill(@)]
    /\ Goto(s, "concat")
    /\ UNCHANGED <<shared, outcome, inputs, resume_text, skills, score,
                   matched_skills, email, phone, highlighted_resume, new_row,
                   steps, log_before>>

\* the concatenation with its two frames swapped
Prepended(frame, row) == Concat(FrameOf(row), frame)

\* line 148: the new row goes after the rows read
Appended(frame, row) == Concat(frame, FrameOf(row))

ConcatStep(s) ==
    /\ pc[s] = "concat"
    /\ df' = [df EXCEPT ![s] = Appended(@, new_row[s])]
    /\ Goto(s, "write")
    /\ UNCHANGED <<shared, outcome, inputs, resume_text, skills, score,
                   matched_skills, email, phone, highlighted_resume, new_row,
                   steps, log_before>>

\* line 150: df = pd.DataFrame([new_row])
Fresh(s) ==
    /\ pc[s] = "fresh"
    /\ df' = [df EXCEPT ![s] = FrameOf(new_row[s])]
    /\ Goto(s, "write")
    /\ UNCHANGED <<shared, outcome, inputs, resume_text, skills, score,
                   matched_skills, email, phone, highlighted_resume, new_row,
                   steps, log_before>>

\* the file if the save held a lock and added the frame's last row to the
\* rows the file holds at the time of the write
WrittenUnderLock(file, frame) ==
    IF file.exists
    THEN to_excel(Concat(Backfill(read_excel(file)),
                         [cols |-> frame.cols, rows |-> <<frame.rows[Len(frame.rows)]>>]))
    ELSE to_excel(frame)

\* the file after line 151 has written frame over it
Written(file, frame) == to_excel(frame)

\* line 151: df.to_excel(EXCEL_DB, index=False), which raises and leaves the
\* file alone when the file cannot be opened for writing
Write(s) ==
    /\ pc[s] = "write"
    /\ \/ /\ log' = Written(log, df[s])
          /\ saved' = Append(saved, [c \in Range(DeclaredCols) |-> ToCell(new_row[s][c])])
          /\ steps' = [steps EXCEPT ![s] = Append(@, "log")]
          /\ Goto(s, "past")
          /\ UNCHANGED <<outcome, locals>>
       \/ /\ End(s, "PersistenceError")
          /\ UNCHANGED <<log, saved, steps>>
    /\ UNCHANGED <<temp, clock, runs, log0, inputs, log_before>>

\* lines 157-161: the records are read again and shown; the read raises when
\* the file cannot be read
Past(s) ==
    /\ pc[s] = "past"
    /\ \/ End(s, IF steps[s] # <<>> THEN "done" ELSE "skipped")
       \/ /\ log.exists
          /\ End(s, "PersistenceError")
    /\ UNCHANGED <<shared, inputs, steps, log_before>>

\* one step of session s
Run(s) ==
    \/ Rerun(s)
    \/ Guard(s)
    \/ SaveTemp(s)
    \/ ReadDoc(s)
    \/ ExtractSkills(s)
    \/ ScoreStep(s)
    \/ MatchStep(s)
    \/ EmailStep(s)
    \/ PhoneStep(s)
    \/ HighlightStep(s)
    \/ NewRow(s)
    \/ Exists(s)
    \/ ReadLog(s)
    \/ BackfillStep(s)
    \/ ConcatStep(s)
    \/ Fresh(s)
    \/ Write(s)
    \/ Past(s)

(***************************************************************************)
(* Sequential use: one session, one run after another.                     *)
(***************************************************************************)
Next == Run("s1")

Spec == Init /\ [][Next]_vars

(***************************************************************************)
(* Concurrent use: Streamlit runs each session's script in a thread of its *)
(* own, and the steps of two sessions interleave.                          *)
(***************************************************************************)
\* two users screen resumes, each saved under the same name, against the
\* same job description
RerunBusy(s) ==
    /\ outcome[s] = "none"
    /\ RerunWith(s, {u \in Uploads : u.kind = "pdf"},
                 {jd \in JobDescriptions : Strip(jd) # <<>>})

NextConc ==
    \E s \in Sessions :
        \/ RerunBusy(s)
        \/ Guard(s) \/ SaveTemp(s) \/ ReadDoc(s) \/ ExtractSkills(s)
        \/ ScoreStep(s) \/ MatchStep(s) \/ EmailStep(s) \/ PhoneStep(s)
        \/ HighlightStep(s) \/ NewRow(s) \/ Exists(s) \/ ReadLog(s)
        \/ BackfillStep(s) \/ ConcatStep(s) \/ Fresh(s) \/ Write(s) \/ Past(s)

SpecConc == Init /\ [][NextConc]_vars

(***************************************************************************)
(* The text functions on their own: a run that has read a resume and       *)
(* extracted the skills of a job description, for every text and every     *)
(* skill list of the sets below.                                           *)
(***************************************************************************)
\* the sequences over S of length n at most
SeqsUpTo(S, n) == UNION {[1..k -> S] : k \in 0..n}

\* the pieces the resume texts are put together from
TextTokens == { <<"a", "b">>, <<"A", "B">>, <<"c", "+">>, <<" ">>,
                <<"m", "a", "r", "k">> }
Texts == {Flatten(ts) : ts \in SeqsUpTo(TextTokens, MaxTokens)}

\* the skills of the job descriptions: lowercase, longer than one character
SkillVocab == { <<"a", "b">>, <<"c", "+">>, <<"a", "b", " ", "c", "+">>,
                <<"m", "a", "r", "k">> }
SkillLists ==
    UNION {Orderings(C) : C \in {D \in SUBSET SkillVocab : Cardinality(D) <= MaxSkills}}

\* session s1 is at line `at' of a run on the resume text t with the skill
\* list sk, extracted from the job description that names one skill a line
MidRun(at, t, sk) ==
    /\ log = Absent
    /\ log0 = log
    /\ temp = [n \in TempNames |->
                  IF n = NamePdf THEN [kind |-> "pdf", text |-> t, paras |-> <<>>]
                  ELSE NoFile]
    /\ clock = 2
    /\ runs = 1
    /\ saved = <<>>
    /\ pc = [s \in Sessions |-> IF s = "s1" THEN at ELSE "idle"]
    /\ outcome = [s \in Sessions |-> IF s = "s1" THEN "running" ELSE "none"]
    /\ uploaded_file = [s \in Sessions |->
                           IF s = "s1" THEN PdfFile(NamePdf, t) ELSE NoUpload]
    /\ job_description = [s \in Sessions |->
                             IF s = "s1" THEN Join(<<"\n">>, sk) ELSE <<>>]
    /\ resume_text = [s \in Sessions |-> IF s = "s1" THEN t ELSE <<>>]
    /\ skills = [s \in Sessions |-> IF s = "s1" THEN sk ELSE <<>>]
    /\ score = [s \in Sessions |-> NoScore]
    /\ matched_skills = [s \in Sessions |-> <<>>]
    /\ email = [s \in Sessions |-> <<>>]
    /\ phone = [s \in Sessions |-> <<>>]
    /\ highlighted_resume = [s \in Sessions |-> <<>>]
    /\ new_row = [s \in Sessions |-> NoRow]
    /\ df = [s \in Sessions |-> NoTable]
    /\ steps = [s \in Sessions |->
                   IF s = "s1" THEN <<"read", "extract">> ELSE <<>>]
    /\ log_before = [s \in Sessions |-> log]

InitText == \E t \in Texts, sk \in SkillLists : MidRun("score", t, sk)

NextText ==
    \/ ScoreStep("s1")
    \/ MatchStep("s1")
    \/ EmailStep("s1")
    \/ PhoneStep("s1")
    \/ HighlightStep("s1")

SpecText == InitText /\ [][NextText]_vars

(***************************************************************************)
(* extract_email on every text over EmailAlphabet of MaxEmailLen           *)
(* characters at most.                                                     *)
(***************************************************************************)
EmailAlphabet == {"a", "@", ".", " "}
EmailTexts == SeqsUpTo(EmailAlphabet, MaxEmailLen)

InitEmail == \E t \in EmailTexts : MidRun("email", t, <<>>)

NextEmail == EmailStep("s1")

SpecEmail == InitEmail /\ [][NextEmail]_vars

(***************************************************************************)
(* Properties.                                                             *)
(***************************************************************************)
\* a sequence holds no element twice
NoRepeats(q) == \A i, j \in DOMAIN q : i # j => q[i] # q[j]

\* the run of session s has completed the stage
Did(s, stage) == stage \in Range(steps[s])

\* C1: the matched skills of a run are skills extract_skills returned for
\* the run's job description, each at most once, and the record of the run
\* counts and lists just these.
C1_MatchedFromSkills ==
    \A s \in Sessions :
        /\ Range(matched_skills[s]) \subseteq Range(skills[s])
        /\ NoRepeats(matched_skills[s])
        /\ pc[s] \in {"exists", "read_log", "backfill", "concat", "fresh", "write", "past"}
              => /\ new_row[s]["Matched_Skills_Count"].n
                        = Cardinality(Range(matched_skills[s]))
                 /\ new_row[s]["Matched_Skills_Count"].n <= new_row[s]["Total_Skills"].n
                 /\ new_row[s]["Total_Skills"].n = Cardinality(Range(skills[s]))

\* a run has logged some but not all of the skills of its job description
C1_Witness ==
    /\ pc["s1"] = "past"
    /\ Did("s1", "log")
    /\ matched_skills["s1"] # <<>>
    /\ Len(matched_skills["s1"]) < Len(skills["s1"])
    /\ saved[Len(saved)]["Matched_Skills"] = Str(matched_skills["s1"][1])

\* the skill stands in the text at p with no word character next to it
WholeWordAt(t, skill, p) ==
    /\ LiteralAt(t, skill, p)
    /\ (p = 1 \/ t[p - 1] \notin WordChars)
    /\ (p + Len(skill) - 1 = Len(t) \/ t[p + Len(skill)] \notin WordChars)

\* the skill occurs in the text as a whole word, in any case
OccursAsWord(t, skill) == \E p \in 1..Len(t) : WholeWordAt(t, skill, p)

\* C2: the score is the share, in percent, of the skills that occur in the
\* resume as a whole word in any case, 0 for no skills and 100 when all
\* occur, and it is 100 * len(matched_skills) / len(skills).
C2_ScoreIsShareOfWholeWords ==
    LET t  == resume_text["s1"]
        sk == skills["s1"]
        n  == Cardinality({i \in DOMAIN sk : OccursAsWord(t, sk[i])})
    IN  Did("s1", "score") =>
           /\ sk = <<>> => score["s1"].num = 0
           /\ sk # <<>> => score["s1"].num * Len(sk) = 100 * n * score["s1"].den
           /\ (sk # <<>> /\ n = Len(sk)) => score["s1"].num = 100 * score["s1"].den
           /\ (sk # <<>> /\ pc["s1"] \notin {"score", "match"}) =>
                 score["s1"].num * Len(sk)
                     = 100 * Len(matched_skills["s1"]) * score["s1"].den

\* the text holds pat at position p
HoldsAt(t, pat, p) ==
    /\ p + Len(pat) - 1 <= Len(t)
    /\ SubSeq(t, p, p + Len(pat) - 1) = pat

\* where the text holds an opening and a closing marker
OpensOf(t) == {p \in 1..Len(t) : HoldsAt(t, MarkOpen, p)}
ClosesOf(t) == {p \in 1..Len(t) : HoldsAt(t, MarkClose, p)}

\* the text without its markers
Unmarked(t) ==
    LET tagged == UNION ({p..(p + Len(MarkOpen) - 1) : p \in OpensOf(t)}
                     \cup {p..(p + Len(MarkClose) - 1) : p \in ClosesOf(t)})
        keep == (1..Len(t)) \ tagged
    IN  [k \in 1..Cardinality(keep) |->
            t[CHOOSE i \in keep : Cardinality({j \in keep : j < i}) = k - 1]]

\* no marker opens inside a span that is already wrapped
WrappedOnce(t) ==
    \A p, q \in OpensOf(t) : p < q => \E c \in ClosesOf(t) : p < c /\ c < q

\* C7: highlighting the highlighted text again with the same skills changes
\* nothing: highlight_text(highlight_text(T, S), S) = highlight_text(T, S).
C7_HighlightIdempotent ==
    Did("s1", "highlight") =>
        highlight_text(highlighted_resume["s1"], matched_skills["s1"])
            = highlighted_resume["s1"]

\* C9: a span wrapped for a longer term is not wrapped again for a shorter
\* term, and no later term matches inside the markers already inserted, so
\* that the markers stay whole and taking them away gives the resume back.
C9_MarkersPreserved ==
    Did("s1", "highlight") =>
        /\ WrappedOnce(highlighted_resume["s1"])
        /\ Unmarked(highlighted_resume["s1"]) = resume_text["s1"]

\* the table with the columns it lacks of the declared ones added, empty
WithDeclared(file) ==
    LET extra == SelectSeq(DeclaredCols, LAMBDA c : c \notin Range(file.cols))
    IN  [cols |-> file.cols \o extra,
         rows |-> [i \in 1..Len(file.rows) |->
                      [c \in Range(file.cols \o extra) |->
                          IF c \in Range(file.cols) THEN file.rows[i][c] ELSE Empty]]]

\* C3: from no log, runs made one after another leave a log of the eight
\* declared columns whose rows are the rows of the completed runs, one a
\* run, in the order the runs completed; no row of an earlier run is
\* changed or removed.
C3_AppendOnly ==
    log0 = Absent =>
        IF saved = <<>> THEN ~log.exists
        ELSE /\ log.exists
             /\ log.cols = DeclaredCols
             /\ log.rows = saved

\* two runs that logged different rows have completed from no log
C3_Witness ==
    /\ log0 = Absent
    /\ Len(saved) = 2
    /\ saved[1] # saved[2]
    /\ log.rows = saved
    /\ pc["s1"] = "idle"

\* the job description is empty or whitespace only
Blank(jd) == \A i \in DOMAIN jd : jd[i] \in Spaces

\* nothing is uploaded or the job description is blank
NoInput(s) == uploaded_file[s].kind = "none" \/ Blank(job_description[s])

\* the run of s has computed nothing and left the log alone
Untouched(s) ==
    /\ steps[s] = <<>>
    /\ log = log_before[s]
    /\ resume_text[s] = <<>>
    /\ skills[s] = <<>>
    /\ score[s] = NoScore
    /\ matched_skills[s] = <<>>
    /\ highlighted_resume[s] = <<>>
    /\ new_row[s] = NoRow
    /\ df[s] = NoTable

\* C4 as stated: a run without an upload or with a blank job description
\* processes nothing, leaves the log as it was and does not end in an
\* error.
C4_SkipNeverFails ==
    \A s \in Sessions :
        (NoInput(s) /\ outcome[s] # "none") =>
            /\ Untouched(s)
            /\ outcome[s] \in {"running", "skipped"}

\* C4 as amended: such a run processes nothing and leaves the log as it
\* was; it ends in an error only when a log exists and the Past Records
\* section fails to read it.
C4_SkipLeavesLog ==
    \A s \in Sessions :
        (NoInput(s) /\ outcome[s] # "none") =>
            /\ Untouched(s)
            /\ \/ outcome[s] \in {"running", "skipped"}
               \/ outcome[s] = "PersistenceError" /\ log.exists

\* a run with an upload and a job description of one space was skipped
\* while a log existed
C4_Witness ==
    /\ pc["s1"] = "idle"
    /\ outcome["s1"] = "skipped"
    /\ uploaded_file["s1"].kind = "pdf"
    /\ job_description["s1"] = <<" ">>
    /\ log.exists

\* the stages of a run in the order of the script
FullPipeline == <<"read", "extract", "score", "highlight", "log">>

C6_WholeFileOverwritten ==
    [][\A s \in Sessions :
          (pc[s] = "write" /\ pc'[s] = "past") => log' = to_excel(df[s])]_vars

\* both sessions have completed a run and the log holds one new row only
C6_LostUpdate ==
    /\ \A s \in Sessions : pc[s] = "idle" /\ outcome[s] = "done"
    /\ Len(saved) = 2
    /\ Len(log.rows) = Len(log0.rows) + 1

\* x has the shape of the email pattern: a local part of permitted
\* characters, "@", a domain, ".", and two letters or more
IsEmailShape(x) ==
    \E i, k \in 1..Len(x) :
        /\ 1 < i /\ i + 1 < k /\ k + 2 <= Len(x)
        /\ \A n \in 1..(i - 1) : x[n] \in LocalChars
        /\ x[i] = "@"
        /\ \A n \in (i + 1)..(k - 1) : x[n] \in DomainChars
        /\ x[k] = "."
        /\ \A n \in (k + 1)..Len(x) : x[n] \in Letters

\* the positions at which a substring of the shape starts
ShapedStarts(t) ==
    {p \in 1..Len(t) : \E e \in p..Len(t) : IsEmailShape(SubSeq(t, p, e))}

\* C8: extract_email returns the sentinel for a text that holds no
\* substring of the email shape; otherwise it returns a substring of the
\* shape that starts where the leftmost such substring starts.
C8_FirstEmailOrSentinel ==
    LET t == resume_text["s1"]
        e == email["s1"]
    IN  pc["s1"] = "phone" =>
           IF ShapedStarts(t) = {} THEN e = NotFound
           ELSE LET p == CHOOSE p \in ShapedStarts(t) : \A m \in ShapedStarts(t) : p <= m
                IN  /\ IsEmailShape(e)
                    /\ HoldsAt(t, e, p)

\* substrings of the shape start at two places and the first is returned
C8_Witness ==
    /\ pc["s1"] = "phone"
    /\ ShapedStarts(resume_text["s1"]) = {1, 2}
    /\ email["s1"] = resume_text["s1"]

\* C10: the frame about to take the new row has the Email and
\* Contact_Number columns, holding the empty string in the rows read from a
\* file that lacked them, and the other values as read; once a run has
\* saved, the file has the eight declared columns in every row, the rows it
\* started with unchanged but for the added empty cells, and the saved rows
\* after them.
C10_Backfilled ==
    /\ \A s \in Sessions :
          pc[s] = "concat" =>
             /\ {"Email", "Contact_Number"} \subseteq Range(df[s].cols)
             /\ Len(df[s].rows) = Len(log.rows)
             /\ \A i \in DOMAIN df[s].rows :
                   /\ DOMAIN df[s].rows[i] = Range(df[s].cols)
                   /\ \A c \in Range(df[s].cols) :
                         df[s].rows[i][c] =
                             IF c \in Range(log.cols) THEN FromCell(log.rows[i][c])
                             ELSE Str(<<>>)
    /\ saved # <<>> =>
          /\ Range(DeclaredCols) \subseteq Range(log.cols)
          /\ \A i \in DOMAIN log.rows : DOMAIN log.rows[i] = Range(log.cols)
          /\ log.rows = WithDeclared(log0).rows \o saved

\* a run has saved to a file that had neither column
C10_Witness ==
    /\ log0 = OldLog
    /\ Len(saved) = 1
    /\ Len(log.rows) = 2
    /\ log.rows[1]["Email"] = Empty
    /\ log.rows[1]["Contact_Number"] = Empty
    /\ log.rows[1]["Filename"] = OldRow["Filename"]

=============================================================================
